---- MODULE Spec2Model ----
(***************************************************************************)
(* A model of prestodb/client.py: the session state (ClientSession), the   *)
(* HTTP request layer and protocol processor (PrestoRequest), the result   *)
(* iterator (PrestoResult) and the query driver (PrestoQuery).             *)
(*                                                                         *)
(* Text (header values, property values) is a sequence of one-character    *)
(* strings, so that splitting, stripping, percent-encoding and             *)
(* percent-decoding are computed character by character.  An optional      *)
(* value (Python None) is a sequence of length 0, a present value x is     *)
(* <<x>>.                                                                  *)
(***************************************************************************)
EXTENDS Integers, Sequences, FiniteSets, TLC

(* ------------------------------ bounds -------------------------------- *)

\* Largest number of rows in the data array of one response.
MaxData == 2
\* Largest number of HTTP verb calls (post/get/delete) in one behaviour.
MaxCalls == 3
\* Largest value of max_attempts the configurations draw.
MaxAttemptsBound == 3
\* Largest number of redirect answers the server gives to one post().
MaxHops == 1
\* Largest length of a session property value the server sets (round trip).
MaxValueLen == 2

(* --------------------------- text helpers ------------------------------ *)

None == <<>>
Some(x) == <<x>>

\* str.split(sep) for a one-character separator: "".split(",") is [""].
RECURSIVE Split(_, _)
Split(s, sep) ==
    IF \A i \in 1..Len(s) : s[i] # sep THEN <<s>>
    ELSE LET i == CHOOSE j \in 1..Len(s) :
                      s[j] = sep /\ \A m \in 1..(j-1) : s[m] # sep
         IN <<SubSeq(s, 1, i-1)>> \o Split(SubSeq(s, i+1, Len(s)), sep)

\* str.split(sep, 1): at most one split, at the first separator.
SplitFirst(s, sep) ==
    IF \A i \in 1..Len(s) : s[i] # sep THEN <<s>>
    ELSE LET i == CHOOSE j \in 1..Len(s) :
                      s[j] = sep /\ \A m \in 1..(j-1) : s[m] # sep
         IN <<SubSeq(s, 1, i-1), SubSeq(s, i+1, Len(s))>>

\* str.strip(): the whitespace of this alphabet is the blank.
RECURSIVE Strip(_)
Strip(s) ==
    IF s = <<>> THEN s
    ELSE IF Head(s) = " " THEN Strip(Tail(s))
    ELSE IF s[Len(s)] = " " THEN Strip(SubSeq(s, 1, Len(s)-1))
    ELSE s

\* sep.join(parts)
RECURSIVE Join(_, _)
Join(parts, sep) ==
    IF parts = <<>> THEN <<>>
    ELSE IF Len(parts) = 1 THEN parts[1]
    ELSE parts[1] \o <<sep>> \o Join(Tail(parts), sep)

\* Characters urllib's quote() leaves alone (letters, digits, "_.-~" and "/").
SafeChars == {"x", "y", "a", "b", "c", "d", "C", "D", "0", "2", "3", "5", "/"}
HexDigits == {"0", "2", "3", "5", "C", "D", "c", "d", "a", "b"}

\* The escape quote() writes for a character outside SafeChars.
QuoteChar(c) ==
    CASE c = "," -> <<"%", "2", "C">>
      [] c = "=" -> <<"%", "3", "D">>
      [] c = "%" -> <<"%", "2", "5">>
      [] c = " " -> <<"%", "2", "0">>
      [] OTHER   -> <<c>>

\* six.moves.urllib_parse.quote
RECURSIVE quote(_)
quote(s) ==
    IF s = <<>> THEN <<>>
    ELSE (IF Head(s) \in SafeChars THEN <<Head(s)>> ELSE QuoteChar(Head(s)))
         \o quote(Tail(s))

\* The character a two-digit escape stands for ("?" for a byte outside the alphabet).
UnquoteHex(h1, h2) ==
    CASE h1 = "2" /\ h2 \in {"C", "c"} -> ","
      [] h1 = "3" /\ h2 \in {"D", "d"} -> "="
      [] h1 = "2" /\ h2 = "5" -> "%"
      [] h1 = "2" /\ h2 = "0" -> " "
      [] OTHER -> "?"

\* six.moves.urllib_parse.unquote: an escape is "%" and two hex digits; a "%"
\* that starts no escape is kept.
RECURSIVE unquote(_)
unquote(s) ==
    IF s = <<>> THEN <<>>
    ELSE IF Head(s) = "%" /\ Len(s) >= 3 /\ s[2] \in HexDigits /\ s[3] \in HexDigits
         THEN <<UnquoteHex(s[2], s[3])>> \o unquote(SubSeq(s, 4, Len(s)))
    ELSE <<Head(s)>> \o unquote(Tail(s))

\* get_header_values: the comma-separated entries of a header, each stripped.
get_header_values(value) ==
    [i \in 1..Len(Split(value, ",")) |-> Strip(Split(value, ",")[i])]

\* An entry of Set-Session without "=" makes the unpacking of kv.split("=", 1) fail.
MalformedSetSession(value) ==
    \E i \in 1..Len(get_header_values(value)) :
        Len(SplitFirst(get_header_values(value)[i], "=")) < 2

\* One entry of Set-Session: kv.split("=", 1), the value percent-decoded.
KeyValueMutRaw(kv) ==
    LET p == SplitFirst(kv, "=") IN <<Strip(p[1]), Strip(p[2])>>

KeyValue(kv) ==
    LET p == SplitFirst(kv, "=") IN <<Strip(p[1]), unquote(Strip(p[2]))>>

\* get_session_property_values: (name, decoded value) pairs, in header order.
get_session_property_values(value) ==
    [i \in 1..Len(get_header_values(value)) |-> KeyValue(get_header_values(value)[i])]

(* ------------------------- session and headers ------------------------ *)

\* constants.HEADER_* as used by client.py
HEADER_CATALOG == "X-Presto-Catalog"
HEADER_SCHEMA == "X-Presto-Schema"
HEADER_SOURCE == "X-Presto-Source"
HEADER_USER == "X-Presto-User"
HEADER_SESSION == "X-Presto-Session"
HEADER_TRANSACTION == "X-Presto-Transaction-Id"
HEADER_PREPARED_STATEMENT == "X-Presto-Prepared-Statement"
HEADER_CUSTOM == "X-Custom"

\* The request headers the protocol reserves.
ReservedHeaders ==
    {HEADER_USER, HEADER_SOURCE, HEADER_CATALOG, HEADER_SCHEMA, HEADER_SESSION,
     HEADER_TRANSACTION, HEADER_PREPARED_STATEMENT}

\* The ClientSession of the model: fixed user, catalog, schema, source, transaction id.
SessionUser == <<"u">>
SessionCatalog == <<"c">>
SessionSchema == <<"s">>
SessionSource == <<"o">>
SessionTransaction == <<"N">>
ExtraValue == <<"e">>

\* properties is a Python dict: insertion-ordered (name, value) pairs.
PropKeys(props) == {props[i][1] : i \in 1..Len(props)}
PropValue(props, k) == props[CHOOSE i \in 1..Len(props) : props[i][1] = k][2]

\* properties.pop(prop, None)
PropPop(props, k) ==
    SelectSeq(props, LAMBDA kv : kv[1] # k)

\* properties[key] = value: a present key keeps its place, a new one goes last.
PropSet(props, k, v) ==
    IF k \in PropKeys(props)
    THEN [i \in 1..Len(props) |-> IF props[i][1] = k THEN <<k, v>> ELSE props[i]]
    ELSE Append(props, <<k, v>>)

RECURSIVE PropPopAll(_, _)
PropPopAll(props, names) ==
    IF names = <<>> THEN props
    ELSE PropPopAll(PropPop(props, Head(names)), Tail(names))

RECURSIVE PropSetAll(_, _)
PropSetAll(props, kvs) ==
    IF kvs = <<>> THEN props
    ELSE PropSetAll(PropSet(props, Head(kvs)[1], Head(kvs)[2]), Tail(kvs))

\* "{}={}".format(name, parse.quote(str(value)))
SessionEntry(kv) == kv[1] \o <<"=">> \o quote(kv[2])

\* The X-Presto-Session value http_headers builds.
SessionHeaderValue(props) ==
    Join([i \in 1..Len(props) |-> SessionEntry(props[i])], ",")

\* The headers http_headers fills in before it merges the custom headers.
HeadersBeforeMerge(props, prepared) ==
    [h \in {HEADER_CATALOG, HEADER_SCHEMA, HEADER_SOURCE, HEADER_USER, HEADER_SESSION}
           \cup (IF Len(prepared) > 0 THEN {HEADER_PREPARED_STATEMENT} ELSE {}) |->
        CASE h = HEADER_CATALOG -> SessionCatalog
          [] h = HEADER_SCHEMA -> SessionSchema
          [] h = HEADER_SOURCE -> SessionSource
          [] h = HEADER_USER -> SessionUser
          [] h = HEADER_PREPARED_STATEMENT -> Join(prepared, ",")
          [] OTHER -> SessionHeaderValue(props)]

\* The collision test of http_headers: a custom header named like a header
\* already filled in.
HeaderCollision(props, prepared, extra) ==
    \E key \in DOMAIN extra : key \in DOMAIN HeadersBeforeMerge(props, prepared)

\* PrestoRequest.http_headers: raises ValueError (err) on a collision, else the
\* filled-in headers, updated with the custom headers, and then the transaction id.
http_headers(props, prepared, extra) ==
    LET base == HeadersBeforeMerge(props, prepared)
    IN [err |-> HeaderCollision(props, prepared, extra),
        headers |->
            [h \in DOMAIN base \cup DOMAIN extra \cup {HEADER_TRANSACTION} |->
                IF h = HEADER_TRANSACTION THEN SessionTransaction
                ELSE IF h \in DOMAIN extra THEN extra[h]
                ELSE base[h]]]

\* What requests sends: the session-level headers, overridden by the call's own.
MergeHeaders(sessionLevel, perCall) ==
    [h \in DOMAIN sessionLevel \cup DOMAIN perCall |->
        IF h \in DOMAIN perCall THEN perCall[h] ELSE sessionLevel[h]]

(* ------------------------------ the server ----------------------------- *)

\* What one HTTP response holds, as far as client.py reads it: the status code,
\* the body's error.errorType ("none": no error field), id, nextUri (hasNext),
\* the number of rows of data, columns (None: absent or null, Some(<<>>): the
\* empty list), warnings, and the three session headers (None: absent).
Response(status, error, id, hasNext, dataLen, cols, warn, clear, set, prep) ==
    [status |-> status, error |-> error, id |-> id, hasNext |-> hasNext,
     dataLen |-> dataLen, columns |-> cols, warnings |-> warn,
     clear |-> clear, set |-> set, prep |-> prep]

\* The 503 answer the retry wrapper swallows, and a redirect answer.
Unavailable == Response(503, "none", "None", FALSE, 0, None, <<>>, None, None, None)

Redirect == Response(307, "none", "None", FALSE, 0, None, <<>>, None, None, None)

\* requests' Response.is_redirect: a Location header and a redirect status.
IsRedirectMutNever(status) == FALSE

IsRedirect(status) == status \in {301, 302, 303, 307, 308}

\* requests' Response.ok: no 4xx or 5xx status.
Ok(status) == status < 400

\* The server's plan for one verb call: it answers 503 to the first `fails`
\* attempts and `final` to the later ones; a post() is first redirected `hops` times.
ServerAnswer(plan, attempt) == IF attempt <= plan.fails THEN Unavailable ELSE plan.final

(* ------------------------- the HTTP request layer ---------------------- *)

\* The retry condition of the max_attempts setter: no exception, status code 503.
NeedRetryMutNever(status) == FALSE

NeedRetryMutAnyError(status) == status >= 400

NeedRetry(status) == status = 503

\* exceptions.retry_with: call again while the retry condition holds and attempts
\* are left; the last attempt's response is returned as it is.
RECURSIVE retry_with(_, _, _)
retry_with(attempt, max, plan) ==
    LET r == ServerAnswer(plan, attempt)
    IN IF NeedRetry(r.status) /\ attempt < max
       THEN retry_with(attempt + 1, max, plan)
       ELSE [attempts |-> attempt, response |-> r]

\* One verb (self._get, self._post, self._delete) as the max_attempts setter
\* wires it: the bare transport call when max_attempts is 1, else the retry wrapper.
Verb(max, plan) ==
    IF max = 1
    THEN [attempts |-> 1, response |-> ServerAnswer(plan, 1)]
    ELSE retry_with(1, max, plan)

(* ------------------------- the protocol processor ---------------------- *)

\* _process_error: the exception an error field becomes.
_process_error(errorType) ==
    CASE errorType = "EXTERNAL" -> "PrestoExternalError"
      [] errorType = "USER_ERROR" -> "PrestoUserError"
      [] OTHER -> "PrestoQueryError"

\* raise_response_error
raise_response_error(status) ==
    IF status = 503 THEN "Http503Error" ELSE "HttpError"

\* The data array of a response: the server numbers the rows it sends.
RowsOf(first, n) == [i \in 1..n |-> first + i]

\* The properties after the Clear-Session header of r was applied.
ClearedProps(r, props) ==
    IF r.clear # None THEN PropPopAll(props, get_header_values(r.clear[1])) ELSE props

\* The properties after Clear-Session and then Set-Session of r were applied.
SessionPropsMutSetFirst(r, props) ==
    ClearedProps(r, IF r.set # None
                    THEN PropSetAll(props, get_session_property_values(r.set[1]))
                    ELSE props)

SessionProps(r, props) ==
    IF r.set # None
    THEN PropSetAll(ClearedProps(r, props), get_session_property_values(r.set[1]))
    ELSE ClearedProps(r, props)

\* process() reading the session headers and nextUri before it looks at the
\* status and the error field.
processMutHeadersFirst(r, props, prep, next, uri, ctr) ==
    LET malformed == r.set # None /\ MalformedSetSession(r.set[1])
        applied == [outcome |-> "ok", qid |-> "None",
                    props |-> IF malformed THEN ClearedProps(r, props)
                              ELSE SessionProps(r, props),
                    prep |-> IF r.prep # None /\ ~malformed THEN r.prep ELSE prep,
                    next |-> IF malformed THEN next
                             ELSE IF r.hasNext THEN Some(uri) ELSE None,
                    id |-> "None", rows |-> <<>>, columns |-> None,
                    warnings |-> <<>>, stats |-> "None"]
    IN IF malformed
       THEN [applied EXCEPT !.outcome = "ValueError"]
       ELSE IF ~Ok(r.status)
       THEN [applied EXCEPT !.outcome = raise_response_error(r.status)]
       ELSE IF r.error # "none"
       THEN [applied EXCEPT !.outcome = _process_error(r.error), !.qid = r.id]
       ELSE [applied EXCEPT !.id = r.id, !.rows = RowsOf(ctr, r.dataLen),
                            !.columns = r.columns, !.warnings = r.warnings,
                            !.stats = IF r.hasNext THEN "RUNNING" ELSE "FINISHED"]

\* PrestoRequest.process on response r, with the rows of r numbered after `ctr`.
\* outcome is "ok" (a PrestoStatus is returned) or the exception raised; props,
\* prep and next are the session properties, the prepared-statement header of
\* the HTTP session and _next_uri after the call.
process(r, props, prep, next, uri, ctr) ==
    LET same == [outcome |-> "ok", qid |-> "None", props |-> props, prep |-> prep,
                 next |-> next, id |-> "None", rows |-> <<>>, columns |-> None,
                 warnings |-> <<>>, stats |-> "None"]
    IN IF ~Ok(r.status)
       THEN [same EXCEPT !.outcome = raise_response_error(r.status)]
       ELSE IF r.error # "none"
       THEN [same EXCEPT !.outcome = _process_error(r.error), !.qid = r.id]
       ELSE IF r.set # None /\ MalformedSetSession(r.set[1])
       THEN [same EXCEPT !.outcome = "ValueError", !.props = ClearedProps(r, props)]
       ELSE [outcome |-> "ok",
             qid |-> "None",
             props |-> SessionProps(r, props),
             prep |-> IF r.prep # None THEN r.prep ELSE prep,
             next |-> IF r.hasNext THEN Some(uri) ELSE None,
             id |-> r.id,
             rows |-> RowsOf(ctr, r.dataLen),
             columns |-> r.columns,
             warnings |-> r.warnings,
             stats |-> IF r.hasNext THEN "RUNNING" ELSE "FINISHED"]

(* ------------------------- the typed row mapper ------------------------ *)

\* `sub in s` for two texts.
Contains(sub, s) ==
    \E i \in 0..(Len(s) - Len(sub)) : SubSeq(s, i + 1, i + Len(sub)) = sub

TypeDecimal == <<"d", "e", "c", "i", "m", "a", "l">>
TypeDate == <<"d", "a", "t", "e">>
TypeTimestampTz == <<"t", "i", "m", "e", "s", "t", "a", "m", "p", " ", "w", "i", "t", "h", " ", "t", "i", "m", "e", " ", "z", "o", "n", "e">>
TypeTimestamp == <<"t", "i", "m", "e", "s", "t", "a", "m", "p">>
TypeTimeTz == <<"t", "i", "m", "e", " ", "w", "i", "t", "h", " ", "t", "i", "m", "e", " ", "z", "o", "n", "e">>
TypeTime == <<"t", "i", "m", "e">>

\* PrestoResult._map_to_python_type for a cell that is null or a scalar: the
\* conversion it applies to a column of this rawType.
_map_to_python_type(value, raw_type) ==
    IF value = "null" THEN "None"
    ELSE IF Contains(TypeDecimal, raw_type) THEN "Decimal"
    ELSE IF raw_type = TypeDate THEN "date"
    ELSE IF raw_type = TypeTimestampTz THEN "datetime with time zone"
    ELSE IF Contains(TypeTimestamp, raw_type) THEN "datetime"
    ELSE IF Contains(TypeTimeTz, raw_type) THEN "time with time zone"
    ELSE IF Contains(TypeTime, raw_type) THEN "time"
    ELSE "value"

\* PrestoResult._map_to_python_types for a row of one cell: zip(row, columns)
\* raises TypeError when columns is None and is empty when columns is.
_map_to_python_types(value, cols) ==
    IF cols = None THEN "TypeError"
    ELSE IF cols[1] = <<>> THEN "[]"
    ELSE _map_to_python_type(value, cols[1][1])

(* -------------------------------- state -------------------------------- *)

VARIABLES
    \* PrestoRequest and its ClientSession
    max_attempts,         \* PrestoRequest._max_attempts
    extra_headers,        \* ClientSession._headers: custom header name -> value
    constructed,          \* PrestoRequest.__init__ returned (http_headers did not raise)
    properties,           \* ClientSession._properties
    prepared_statements,  \* PrestoRequest.prepared_statements
    session_headers,      \* the headers of the requests session (_http_session.headers)
    next_uri,             \* PrestoRequest._next_uri
    credentials,          \* PrestoRequest.credentials is not None
    token_valid,          \* credentials.valid, as the provider reports it now
    experimental_python_types,
    cell,                 \* what the cells of the rows hold: "null" or "scalar"
    \* PrestoQuery
    query_id, stats, warnings, columns, finished, cancelled,
    \* PrestoResult (the query's current _result) and the generator of its __iter__
    rows,                 \* _rows: Some(list) or None
    rownumber,            \* _rownumber
    genPc,                \* "buffer": in the first loop, "poll": in the second,
                          \* "done": returned, "raised": ended by an exception
    genIdx,               \* rows of _rows the first loop has yielded
    genLocal,             \* rows of the last fetch() the second loop has yet to yield
    lastYield,            \* how the generator made the row it yielded last
    \* the thread running execute(): "idle", "loop" (at the while test), "fetch" (the
    \* test passed, fetch() is called), "inflight" (fetch() waits for the answer to
    \* its GET)
    execPc,
    \* the thread running cancel(): "idle", "inflight" (waits for the answer to its DELETE)
    cancelPc,
    \* history
    yielded,              \* the rows the generator has yielded, in order
    rowCtr,               \* rows received since the last POST: they are 1..rowCtr
    handed,               \* of these, rows a direct fetch() returned to its caller
    nreq,                 \* verb calls (post, get, delete) issued so far
    lastReq,              \* the last request sent
    lastResp,             \* the session headers of the last response received
    lastCall,             \* the last verb call completed: attempts, the server's plan
    polled,               \* the columns field of the last answer fetch() accepted
    posted,               \* the columns field of the last POST answer execute() accepted,
                          \* None once a later answer has brought a column list
    lastOp                \* the last operation that returned or raised

vars ==
    <<max_attempts, extra_headers, constructed, properties, prepared_statements,
      session_headers, next_uri, query_id, stats, warnings, columns, finished,
      cancelled, rows, rownumber, genPc, genIdx, genLocal, execPc, yielded, rowCtr,
      handed, nreq, lastReq, lastResp, lastCall, polled, posted, lastOp, credentials,
      token_valid, experimental_python_types, cell, lastYield, cancelPc>>

configVars ==
    <<max_attempts, extra_headers, constructed, prepared_statements, credentials,
      experimental_python_types, cell>>
fixedVars == <<configVars, token_valid, cancelPc>>
queryVars == <<query_id, stats, warnings, columns, finished, cancelled>>
resultVars == <<rows, rownumber, genPc, genIdx, genLocal, yielded, lastYield>>
requestVars == <<properties, session_headers, next_uri>>
httpVars == <<nreq, lastReq, lastResp, lastCall, polled, posted, rowCtr>>

(* ----------------------------- history records ------------------------- *)

NoHeaders == [accepted |-> FALSE, clear |-> None, set |-> None, prep |-> None]

\* The session headers of a response and whether process() returned a status for it.
Summary(r, outcome) ==
    IF r.clear = None /\ r.set = None /\ r.prep = None THEN NoHeaders
    ELSE [accepted |-> outcome = "ok", clear |-> r.clear, set |-> r.set, prep |-> r.prep]

Request(verb, path, qid, page, headers) ==
    [verb |-> verb, path |-> path, qid |-> qid, page |-> page, headers |-> headers]

NoRequest == Request("NONE", "", "None", 0, <<>>)

\* One verb call and what became of its response: the attempts made, the server's
\* plan, the status, error field and nextUri of the response the verb returned,
\* and the outcome of process() on it ("none": the response was not processed).
Call(verb, attempts, plan, response, outcome) ==
    [verb |-> verb, attempts |-> attempts, fails |-> plan.fails, final |-> plan.final.status,
     hops |-> plan.hops, status |-> response.status, error |-> response.error,
     hasNext |-> response.hasNext, processed |-> outcome]

NoCall ==
    [verb |-> "NONE", attempts |-> 0, fails |-> 0, final |-> 0, hops |-> 0, status |-> 0,
     error |-> "none", hasNext |-> FALSE, processed |-> "none"]

Op(name, outcome, qid) == [op |-> name, outcome |-> outcome, qid |-> qid]

(* ---------------------------- construction ----------------------------- *)

\* PrestoRequest.__init__ and PrestoQuery.__init__, for a ClientSession with the
\* given properties and custom headers; with a service account file the token is
\* refreshed at once.
ConstructWith(attempts, props, extra, account, typed, value) ==
    /\ max_attempts = attempts
    /\ credentials = account
    /\ token_valid = account
    /\ experimental_python_types = typed
    /\ cell = value
    /\ lastYield = "none"
    /\ cancelPc = "idle"
    /\ extra_headers = extra
    /\ properties = props
    /\ prepared_statements = <<>>
    /\ constructed = ~http_headers(props, <<>>, extra).err
    /\ session_headers = IF http_headers(props, <<>>, extra).err THEN <<>>
                         ELSE http_headers(props, <<>>, extra).headers
    /\ next_uri = None
    /\ query_id = "None"
    /\ stats = [queryId |-> "None", state |-> "None"]
    /\ warnings = <<>>
    /\ columns = None
    /\ finished = FALSE
    /\ cancelled = FALSE
    /\ rows = Some(<<>>)
    /\ rownumber = 0
    /\ genPc = "buffer"
    /\ genIdx = 0
    /\ genLocal = <<>>
    /\ execPc = "idle"
    /\ yielded = <<>>
    /\ rowCtr = 0
    /\ handed = 0
    /\ nreq = 0
    /\ lastReq = NoRequest
    /\ lastResp = NoHeaders
    /\ lastCall = NoCall
    /\ polled = None
    /\ posted = None
    /\ lastOp = Op("init", "return", "None")

\* The same without service account file and without experimental_python_types.
Construct(attempts, props, extra) ==
    ConstructWith(attempts, props, extra, FALSE, FALSE, "scalar")

(* ------------------------------ operations ----------------------------- *)

\* The X-Presto-Prepared-Statement header of the HTTP session, if it is set.
SessionPrepared(sess) ==
    IF HEADER_PREPARED_STATEMENT \in DOMAIN sess
    THEN Some(sess[HEADER_PREPARED_STATEMENT]) ELSE None

\* self._http_session.headers[HEADER_PREPARED_STATEMENT] = value
WithPrepared(sess, prep) ==
    IF prep = None THEN sess
    ELSE [h \in DOMAIN sess \cup {HEADER_PREPARED_STATEMENT} |->
            IF h = HEADER_PREPARED_STATEMENT THEN prep[1] ELSE sess[h]]

\* PrestoRequest.post: with a redirect handler installed, POST again while the
\* answer is a redirect.  Each POST is one call of the wired verb.
RECURSIVE FollowRedirects(_, _, _)
FollowRedirects(max, plan, n) ==
    LET answer == IF n <= plan.hops THEN [attempts |-> 1, response |-> Redirect]
                  ELSE Verb(max, plan)
    IN IF IsRedirect(answer.response.status)
       THEN FollowRedirects(max, plan, n + 1)
       ELSE [calls |-> n,
             path |-> IF n > 1 THEN "redirected" ELSE "/v1/statement",
             attempts |-> answer.attempts,
             response |-> answer.response]

post(plan) == FollowRedirects(max_attempts, plan, 1)

\* The headers post() and get() send: http_headers, read at the call.
CallHeadersMutStale == session_headers

CallHeaders ==
    MergeHeaders(session_headers,
                 http_headers(properties, prepared_statements, extra_headers).headers)

\* `if status.columns: self._columns = status.columns`
LatchColumnsMutAlways(current, new) == new

LatchColumns(current, new) ==
    IF new # None /\ new[1] # <<>> THEN new ELSE current

\* The test execute() makes before anything else.
ExecuteRefusedMutNever == FALSE

ExecuteRefused == cancelled

\* The test of the second loop of PrestoResult.__iter__.
IterContinues == ~finished

\* The test of the while loop of execute().
ExecuteContinuesMutIgnoreCancel == ~finished

ExecuteContinuesMutNever == FALSE

ExecuteContinues == ~finished /\ ~cancelled

\* `for row in self._rows`: the row the first loop yields after idx rows.
BufferedRowMutReversed(buffer, idx) == buffer[Len(buffer) - idx]

BufferedRow(buffer, idx) == buffer[idx + 1]

\* `self._result._rows += self.fetch()`
BufferMutReplace(buffer, new) == new

Buffer(buffer, new) == buffer \o new

\* What process() leaves in the request object and the session.
ProcessEffect(pr) ==
    /\ properties' = pr.props
    /\ session_headers' = WithPrepared(session_headers, pr.prep)
    /\ next_uri' = pr.next

\* PrestoQuery.fetch after its GET: pr is what process() made of the answer.
FetchEffect(pr) ==
    /\ ProcessEffect(pr)
    /\ columns' = IF pr.outcome = "ok" THEN LatchColumns(columns, pr.columns) ELSE columns
    /\ stats' = IF pr.outcome = "ok" THEN [stats EXCEPT !.state = pr.stats] ELSE stats
    /\ finished' = IF pr.outcome = "ok" /\ pr.next = None THEN TRUE ELSE finished
    /\ rowCtr' = rowCtr + Len(pr.rows)
    /\ polled' = IF pr.outcome = "ok" THEN pr.columns ELSE polled
    /\ posted' = IF pr.outcome = "ok" /\ LatchColumns(None, pr.columns) # None
                 THEN None ELSE posted
    /\ UNCHANGED <<query_id, warnings, cancelled>>

\* The GET of fetch(), sent.
SendGet ==
    /\ nreq < MaxCalls
    /\ nreq' = nreq + 1
    /\ lastReq' = Request("GET", "next", "None", next_uri[1], CallHeaders)

\* `if self.credentials is not None and not self.credentials.valid:` refresh.
RefreshedToken == IF credentials /\ ~token_valid THEN TRUE ELSE token_valid

\* PrestoQuery.execute up to its while loop.
Execute(plans) ==
    /\ constructed
    /\ execPc = "idle"
    /\ IF ExecuteRefused
       THEN /\ lastOp' = Op("execute", "PrestoUserError(Query has been cancelled)", query_id)
            /\ UNCHANGED <<fixedVars, queryVars, resultVars, requestVars, httpVars,
                           execPc, handed>>
       ELSE \E plan \in plans :
            \E call \in {post(plan)} :
            \E pr \in {process(call.response, properties, SessionPrepared(session_headers),
                              next_uri, nreq + call.calls, 0)} :
               /\ nreq + call.calls <= MaxCalls
               /\ nreq' = nreq + call.calls
               /\ lastReq' = Request("POST", call.path, "None", 0, CallHeaders)
               /\ lastResp' = Summary(call.response, pr.outcome)
               /\ lastCall' = Call("POST", call.attempts, plan, call.response, pr.outcome)
               /\ ProcessEffect(pr)
               /\ UNCHANGED polled
               /\ posted' = IF pr.outcome = "ok" THEN pr.columns ELSE posted
               /\ IF pr.outcome = "ok"
                  THEN /\ query_id' = pr.id
                       /\ stats' = [queryId |-> pr.id, state |-> pr.stats]
                       /\ warnings' = pr.warnings
                       /\ finished' = IF pr.next = None THEN TRUE ELSE finished
                       /\ rows' = Some(pr.rows)
                       /\ rownumber' = 0
                       /\ genPc' = "buffer"
                       /\ genIdx' = 0
                       /\ genLocal' = <<>>
                       /\ yielded' = <<>>
                       /\ lastYield' = "none"
                       /\ rowCtr' = Len(pr.rows)
                       /\ handed' = 0
                       /\ execPc' = "loop"
                       /\ UNCHANGED <<columns, cancelled, lastOp>>
                  ELSE /\ lastOp' = Op("execute", pr.outcome, pr.qid)
                       /\ UNCHANGED <<queryVars, resultVars, rowCtr, handed, execPc>>
               /\ token_valid' = RefreshedToken
               /\ UNCHANGED <<configVars, cancelPc>>

\* The test of the while loop of execute(): leave the loop, or call fetch().
ExecuteLoop ==
    /\ execPc = "loop"
    /\ IF ~ExecuteContinues
       THEN /\ execPc' = "idle"
            /\ lastOp' = Op("execute", "return", query_id)
            /\ UNCHANGED <<fixedVars, queryVars, resultVars, requestVars, httpVars, handed>>
       ELSE /\ execPc' = "fetch"
            /\ UNCHANGED <<fixedVars, queryVars, resultVars, requestVars, httpVars, handed,
                           lastOp>>

\* The fetch() of execute()'s loop, up to its GET: without next_uri it marks the
\* query finished and returns no rows.
ExecuteFetch ==
    /\ execPc = "fetch"
    /\ IF next_uri = None
       THEN /\ finished' = TRUE
            /\ execPc' = "loop"
            /\ UNCHANGED <<fixedVars, query_id, stats, warnings, columns, cancelled,
                           resultVars, requestVars, httpVars, handed, lastOp>>
       ELSE /\ SendGet
            /\ execPc' = "inflight"
            /\ UNCHANGED <<fixedVars, queryVars, resultVars, requestVars, lastResp,
                           lastCall, polled, posted, rowCtr, handed, lastOp>>

\* The fetch() of execute()'s loop gets its answer.
ExecuteReceive(plans) ==
    /\ execPc = "inflight"
    /\ \E plan \in plans :
       \E call \in {Verb(max_attempts, plan)} :
       \E pr \in {process(call.response, properties, SessionPrepared(session_headers),
                         next_uri, nreq, rowCtr)} :
          /\ lastResp' = Summary(call.response, pr.outcome)
          /\ lastCall' = Call("GET", call.attempts, plan, call.response, pr.outcome)
          /\ FetchEffect(pr)
          /\ IF pr.outcome = "ok"
             THEN /\ rows' = Some(Buffer(rows[1], pr.rows))
                  /\ execPc' = "loop"
                  /\ UNCHANGED lastOp
             ELSE /\ execPc' = "idle"
                  /\ lastOp' = Op("execute", pr.outcome, pr.qid)
                  /\ UNCHANGED rows
          /\ UNCHANGED <<fixedVars, rownumber, genPc, genIdx,
                         genLocal, yielded, lastYield, handed, nreq, lastReq>>

\* PrestoQuery.fetch called by the user: its rows go to the caller.
Fetch(plans) ==
    /\ constructed
    /\ execPc = "idle"
    /\ IF next_uri = None
       THEN /\ finished' = TRUE
            /\ lastOp' = Op("fetch", "return", "None")
            /\ UNCHANGED <<fixedVars, query_id, stats, warnings, columns, cancelled,
                           resultVars, requestVars, httpVars, handed, execPc>>
       ELSE \E plan \in plans :
            \E call \in {Verb(max_attempts, plan)} :
            \E pr \in {process(call.response, properties, SessionPrepared(session_headers),
                              next_uri, nreq + 1, rowCtr)} :
               /\ SendGet
               /\ lastResp' = Summary(call.response, pr.outcome)
               /\ lastCall' = Call("GET", call.attempts, plan, call.response, pr.outcome)
               /\ FetchEffect(pr)
               /\ handed' = handed + Len(pr.rows)
               /\ lastOp' = Op("fetch", IF pr.outcome = "ok" THEN "return" ELSE pr.outcome,
                               pr.qid)
               /\ UNCHANGED <<fixedVars, resultVars, execPc>>

\* What __iter__ yields for a row: the row, or with experimental_python_types
\* the row mapped by the columns the query holds at that moment.
Yielded(cols) ==
    IF experimental_python_types THEN _map_to_python_types(cell, cols) ELSE "row"

\* `self._rownumber += 1` and the yield of one row; the mapping may raise.
YieldRow(row, cols) ==
    /\ rownumber' = rownumber + 1
    /\ IF Yielded(cols) = "TypeError"
       THEN /\ genPc' = "raised"
            /\ lastOp' = Op("next", "TypeError", "None")
            /\ UNCHANGED <<yielded, lastYield>>
       ELSE /\ yielded' = Append(yielded, row)
            /\ lastYield' = Yielded(cols)
            /\ lastOp' = Op("next", "yield", "None")
            /\ UNCHANGED genPc

\* PrestoResult.__iter__, first loop: yield the next row of _rows.
IterBuffered ==
    /\ constructed
    /\ execPc = "idle"
    /\ genPc = "buffer"
    /\ genIdx < Len(rows[1])
    /\ YieldRow(BufferedRow(rows[1], genIdx), columns)
    /\ genIdx' = genIdx + 1
    /\ UNCHANGED <<fixedVars, queryVars, requestVars, httpVars, rows, genLocal,
                   execPc, handed>>

\* PrestoResult.__iter__ between its loops: `self._rows = None`.
IterBufferEnd ==
    /\ constructed
    /\ execPc = "idle"
    /\ genPc = "buffer"
    /\ genIdx = Len(rows[1])
    /\ rows' = None
    /\ genPc' = "poll"
    /\ UNCHANGED <<fixedVars, queryVars, requestVars, httpVars, rownumber, genIdx,
                   genLocal, yielded, lastYield, execPc, handed, lastOp>>

\* PrestoResult.__iter__, second loop: fetch() and yield the first of its rows.
IterFetch(plans) ==
    /\ constructed
    /\ execPc = "idle"
    /\ genPc = "poll"
    /\ genLocal = <<>>
    /\ IterContinues
    /\ IF next_uri = None
       THEN /\ finished' = TRUE
            /\ UNCHANGED <<fixedVars, query_id, stats, warnings, columns, cancelled,
                           resultVars, requestVars, httpVars, handed, execPc, lastOp>>
       ELSE \E plan \in plans :
            \E call \in {Verb(max_attempts, plan)} :
            \E pr \in {process(call.response, properties, SessionPrepared(session_headers),
                              next_uri, nreq + 1, rowCtr)} :
               /\ SendGet
               /\ lastResp' = Summary(call.response, pr.outcome)
               /\ lastCall' = Call("GET", call.attempts, plan, call.response, pr.outcome)
               /\ FetchEffect(pr)
               /\ IF pr.outcome # "ok"
                  THEN /\ genPc' = "raised"
                       /\ lastOp' = Op("next", pr.outcome, pr.qid)
                       /\ UNCHANGED <<rownumber, yielded, lastYield, genLocal>>
                  ELSE IF pr.rows = <<>>
                  THEN /\ lastOp' = Op("next", "poll", "None")
                       /\ UNCHANGED <<genPc, rownumber, yielded, lastYield, genLocal>>
                  ELSE /\ YieldRow(Head(pr.rows), columns')
                       /\ genLocal' = Tail(pr.rows)
               /\ UNCHANGED <<fixedVars, rows, genIdx, execPc, handed>>

\* PrestoResult.__iter__, second loop: yield the next row of the last fetch().
IterFetched ==
    /\ constructed
    /\ execPc = "idle"
    /\ genPc = "poll"
    /\ genLocal # <<>>
    /\ YieldRow(Head(genLocal), columns)
    /\ genLocal' = Tail(genLocal)
    /\ UNCHANGED <<fixedVars, queryVars, requestVars, httpVars, rows, genIdx,
                   execPc, handed>>

\* PrestoResult.__iter__ returns: the iteration is complete.
IterStop ==
    /\ constructed
    /\ execPc = "idle"
    /\ genPc = "poll"
    /\ genLocal = <<>>
    /\ ~IterContinues
    /\ genPc' = "done"
    /\ lastOp' = Op("next", "stop", "None")
    /\ UNCHANGED <<fixedVars, queryVars, requestVars, httpVars, rows, rownumber, genIdx,
                   genLocal, yielded, lastYield, execPc, handed>>

\* The test cancel() makes before anything else.
CancelSkippedMutIdOnly == query_id = "None"

CancelSkipped == query_id = "None" \/ finished

\* The mark cancel() leaves before it sends its DELETE.
CancelMarkMutLate == cancelled

CancelMark == TRUE

\* PrestoQuery.cancel, on any thread, up to its DELETE.
Cancel ==
    /\ constructed
    /\ cancelPc = "idle"
    /\ IF CancelSkipped
       THEN /\ lastOp' = Op("cancel", "return", "None")
            /\ UNCHANGED <<fixedVars, queryVars, resultVars, requestVars, httpVars,
                           execPc, handed>>
       ELSE /\ nreq < MaxCalls
            /\ cancelled' = CancelMark
            /\ cancelPc' = "inflight"
            /\ nreq' = nreq + 1
            /\ lastReq' = Request("DELETE", "/v1/query", query_id, 0, session_headers)
            /\ UNCHANGED <<configVars, token_valid, query_id, stats, warnings, columns,
                           finished, resultVars, requestVars, lastResp, lastCall, polled, posted,
                           rowCtr, execPc, handed, lastOp>>

\* cancel() gets the answer to its DELETE: 204 is the success, any other status
\* goes to raise_response_error.
CancelReceive(plans) ==
    /\ cancelPc = "inflight"
    /\ \E plan \in plans :
       \E call \in {Verb(max_attempts, plan)} :
          /\ cancelPc' = "idle"
          /\ lastResp' = NoHeaders
          /\ lastCall' = Call("DELETE", call.attempts, plan, call.response, "none")
          /\ lastOp' = Op("cancel",
                          IF call.response.status = 204 THEN "return"
                          ELSE raise_response_error(call.response.status),
                          "None")
          /\ UNCHANGED <<configVars, token_valid, queryVars, resultVars, requestVars,
                         nreq, lastReq, polled, posted, rowCtr, execPc, handed>>

\* The credential provider's token stops being valid.
TokenExpires ==
    /\ credentials
    /\ token_valid
    /\ token_valid' = FALSE
    /\ UNCHANGED <<configVars, cancelPc, queryVars, resultVars, requestVars, httpVars,
                   execPc, handed, lastOp>>

(* --------------------- what the server may answer ---------------------- *)

QueryIds == {"q1", "q2"}
ColumnLists == {None, Some(<<>>), Some(<<"x">>), Some(<<"x", "y">>)}
ErrorTypes == {"USER_ERROR", "EXTERNAL", "INTERNAL_ERROR"}

Plan(fails, hops, final) == [fails |-> fails, hops |-> hops, final |-> final]

\* 2xx answers without an error field.
Bodies(ids, lens, cols, clears, sets, preps) ==
    {Response(200, "none", id, hasNext, n, c, <<>>, cl, st, pp) :
        id \in ids, hasNext \in BOOLEAN, n \in lens, c \in cols,
        cl \in clears, st \in sets, pp \in preps}

\* 2xx answers with an error field; they may hold a nextUri and session headers too.
ErrorBodies(ids, clears, sets, preps) ==
    {Response(200, e, id, TRUE, 0, None, <<>>, cl, st, pp) :
        e \in ErrorTypes, id \in ids, cl \in clears, st \in sets, pp \in preps}

\* Answers with another status (for a DELETE, 204 is the success).
Statuses(codes) ==
    {Response(c, "none", "None", FALSE, 0, None, <<>>, None, None, None) : c \in codes}

\* The specifications differ in what the server answers and in how the client is
\* configured; the operations are the same.
\*
\* Spec, the query driver's view: rows, errors, cancellation; no session headers,
\* no retry.  execute() reads the id of its answer, fetch() only that of an error.
DriverFailures ==
    ErrorBodies({"q1"}, {None}, {None}, {None}) \cup Statuses({500, 503})

DriverPosts ==
    {Plan(0, 0, r) :
        r \in Bodies(QueryIds, 0..MaxData, {None}, {None}, {None}, {None})
                \cup DriverFailures}

DriverGets ==
    {Plan(0, 0, r) :
        r \in Bodies({"q1"}, 0..MaxData, {None}, {None}, {None}, {None})
                \cup DriverFailures}

DriverDeletes == {Plan(0, 0, r) : r \in Statuses({204, 200, 500, 503})}

Init == Construct(1, <<>>, <<>>)

Step(posts, gets, deletes) ==
    \/ Execute(posts)
    \/ ExecuteLoop
    \/ ExecuteFetch
    \/ ExecuteReceive(gets)
    \/ Fetch(gets)
    \/ IterBuffered
    \/ IterBufferEnd
    \/ IterFetch(gets)
    \/ IterFetched
    \/ IterStop
    \/ Cancel
    \/ CancelReceive(deletes)

Next == Step(DriverPosts, DriverGets, DriverDeletes)

Spec == Init /\ [][Next]_vars

\* SpecColumns, the column lists: every answer may hold columns; no rows.
ColumnPosts ==
    {Plan(0, 0, r) :
        r \in Bodies({"q1"}, {0, 2}, ColumnLists, {None}, {None}, {None})
                \cup Statuses({500})}

ColumnGets == ColumnPosts

ColumnDeletes == {Plan(0, 0, r) : r \in Statuses({204, 500})}

NextColumns == Step(ColumnPosts, ColumnGets, ColumnDeletes)

SpecColumns == Init /\ [][NextColumns]_vars

\* SpecRetry, the retry wrapper and the redirects of post(): max_attempts is drawn
\* at construction, the server answers 503 to the first attempts of a call.
RetryAnswers ==
    Bodies({"q1"}, {2}, {None}, {None}, {None}, {None}) \cup Statuses({500, 503})

RetryPosts ==
    {Plan(f, h, r) : f \in 0..MaxAttemptsBound, h \in {0, MaxHops}, r \in RetryAnswers}

RetryGets == {Plan(f, 0, r) : f \in 0..MaxAttemptsBound, r \in RetryAnswers}

RetryDeletes ==
    {Plan(f, 0, r) : f \in 0..MaxAttemptsBound, r \in Statuses({204, 500, 503})}

InitRetry == \E n \in 1..MaxAttemptsBound : Construct(n, <<>>, <<>>)

NextRetry == Step(RetryPosts, RetryGets, RetryDeletes)

SpecRetry == InitRetry /\ [][NextRetry]_vars

\* SpecSession, the session headers: answers hold X-Presto-Clear-Session,
\* X-Presto-Set-Session and X-Presto-Added-Prepare; failing answers hold them too.
PropA == <<"a">>
PropB == <<"b">>
ValuePlain == <<"x">>
ValueSpecial == <<"y", ",", "=">>

\* name=percent_encoded_value, as the server writes an entry of Set-Session.
Wire(k, v) == k \o <<"=">> \o quote(v)

\* (Clear-Session, Set-Session, Added-Prepare) of one answer.
SessionHeaders ==
    {<<Some(PropA \o <<",", " ">> \o PropB), None, None>>,
     <<None, Some(Wire(PropA, ValuePlain) \o <<",", " ">> \o Wire(PropB, ValuePlain)), None>>,
     <<None, Some(Wire(PropA, ValuePlain) \o <<",">> \o Wire(PropA, ValueSpecial)), None>>,
     <<Some(PropA), Some(Wire(PropA, ValuePlain)), None>>,
     <<Some(PropB), Some(Wire(PropA, ValueSpecial)), Some(<<"p">>)>>,
     <<Some(PropB), Some(<<>>), Some(<<"q">>)>>}

SessionAnswers ==
    {Response(200, "none", "q1", TRUE, 2, None, <<>>, h[1], h[2], h[3]) :
        h \in SessionHeaders}
    \cup {Response(200, "none", "q1", hasNext, 2, None, <<>>, None, None, None) :
            hasNext \in BOOLEAN}
    \cup {Response(st[1], st[2], "q1", TRUE, 0, None, <<>>,
                   Some(PropA), Some(Wire(PropB, ValuePlain)), Some(<<"q">>)) :
            st \in {<<500, "none">>, <<200, "USER_ERROR">>}}

SessionPlans == {Plan(0, 0, r) : r \in SessionAnswers}

SessionDeletes == {Plan(0, 0, r) : r \in Statuses({204, 500})}

InitSession == Construct(1, <<<<PropB, ValueSpecial>>>>, <<>>)

NextSession == Step(SessionPlans, SessionPlans, SessionDeletes)

SpecSession == InitSession /\ [][NextSession]_vars

\* SpecConfig, the custom headers: the ClientSession is given one custom header,
\* named like a reserved header or not.
ConfigAnswers ==
    {Response(200, "none", "q1", hasNext, 2, None, <<>>, None, None, pp) :
        hasNext \in BOOLEAN, pp \in {None, Some(<<"p">>)}}
    \cup Statuses({500})

ConfigPlans == {Plan(0, 0, r) : r \in ConfigAnswers}

ConfigDeletes == {Plan(0, 0, r) : r \in Statuses({204, 500})}

InitConfig ==
    \E extra \in {<<>>} \cup {(h :> ExtraValue) : h \in ReservedHeaders \cup {HEADER_CUSTOM}} :
        Construct(1, <<>>, extra)

NextConfig == Step(ConfigPlans, ConfigPlans, ConfigDeletes)

SpecConfig == InitConfig /\ [][NextConfig]_vars


\* SpecPrepared, the prepared statements: answers hold X-Presto-Added-Prepare.
PreparedAnswers ==
    {Response(200, "none", "q1", hasNext, 2, None, <<>>, None, None, pp) :
        hasNext \in BOOLEAN, pp \in {None, Some(<<"p">>), Some(<<"q">>)}}
    \cup Statuses({500})

PreparedPlans == {Plan(0, 0, r) : r \in PreparedAnswers}

PreparedDeletes == {Plan(0, 0, r) : r \in Statuses({204, 500})}

NextPrepared == Step(PreparedPlans, PreparedPlans, PreparedDeletes)

SpecPrepared == Init /\ [][NextPrepared]_vars

\* SpecCredentials, the service account: the token is refreshed at construction
\* and may stop being valid at any moment.
CredentialAnswers ==
    Bodies({"q1"}, {2}, {None}, {None}, {None}, {None}) \cup Statuses({500})

CredentialPlans == {Plan(0, 0, r) : r \in CredentialAnswers}

CredentialDeletes == {Plan(0, 0, r) : r \in Statuses({204, 500})}

InitCredentials == ConstructWith(1, <<>>, <<>>, TRUE, FALSE, "scalar")

NextCredentials ==
    \/ Step(CredentialPlans, CredentialPlans, CredentialDeletes)
    \/ TokenExpires

SpecCredentials == InitCredentials /\ [][NextCredentials]_vars


\* SpecRoundTrip, the percent-encoding: the session is built with property b set
\* to a value that holds "," or "="; the server answers the POST by setting
\* property a to the value of b, sent as a=percent_encoded_value.
RoundTripChars == {",", "=", "%"}

RoundTripValues ==
    {v \in UNION {[1..n -> RoundTripChars] : n \in 1..MaxValueLen} :
        \E i \in 1..Len(v) : v[i] \in {",", "="}}

RoundTripPosts ==
    {Plan(0, 0, Response(200, "none", "q1", hasNext, 2, None, <<>>,
                         None, Some(Wire(PropA, PropValue(properties, PropB))), None)) :
        hasNext \in BOOLEAN}

RoundTripGets ==
    {Plan(0, 0, r) :
        r \in Bodies({"q1"}, {2}, {None}, {None}, {None}, {None}) \cup Statuses({500})}

RoundTripDeletes == {Plan(0, 0, r) : r \in Statuses({204, 500})}

InitRoundTrip == \E v \in RoundTripValues : Construct(1, <<<<PropB, v>>>>, <<>>)

NextRoundTrip == Step(RoundTripPosts, RoundTripGets, RoundTripDeletes)

SpecRoundTrip == InitRoundTrip /\ [][NextRoundTrip]_vars


\* SpecTypes, the typed rows: experimental_python_types is set, the rows have one
\* cell (null in every row, or a scalar in every row) and the polls hold the
\* description of its column, the rawType.
TypeTimestamp3Tz ==
    <<"t", "i", "m", "e", "s", "t", "a", "m", "p", "(", "3", ")", " ", "w", "i", "t", "h", " ", "t", "i", "m", "e", " ", "z", "o", "n", "e">>
TypeTime3Tz ==
    <<"t", "i", "m", "e", "(", "3", ")", " ", "w", "i", "t", "h", " ", "t", "i", "m", "e", " ", "z", "o", "n", "e">>
TypeDecimal3 == <<"d", "e", "c", "i", "m", "a", "l", "(", "3", ")">>
TypeVarchar == <<"v", "a", "r", "c", "h", "a", "r">>

RawTypes ==
    {TypeDecimal3, TypeDate, TypeTimestampTz, TypeTimestamp3Tz, TypeTimestamp,
     TypeTimeTz, TypeTime3Tz, TypeTime, TypeVarchar}

TypePosts ==
    {Plan(0, 0, r) :
        r \in Bodies({"q1"}, {0, 2}, {None}, {None}, {None}, {None}) \cup Statuses({500})}

TypeGets ==
    {Plan(0, 0, r) :
        r \in Bodies({"q1"}, {2}, {Some(<<t>>) : t \in RawTypes}, {None}, {None}, {None})
                \cup Statuses({500})}

TypeDeletes == {Plan(0, 0, r) : r \in Statuses({204, 500})}

InitTypes ==
    \E value \in {"null", "scalar"} : ConstructWith(1, <<>>, <<>>, FALSE, TRUE, value)

NextTypes == Step(TypePosts, TypeGets, TypeDeletes)

SpecTypes == InitTypes /\ [][NextTypes]_vars

\* SpecRedirect, the redirect handler: the server redirects a request up to
\* MaxHops times before it answers; no retry.
RedirectAnswers ==
    Bodies({"q1"}, {2}, {None}, {None}, {None}, {None}) \cup Statuses({500})

RedirectPlans == {Plan(0, h, r) : h \in 0..MaxHops, r \in RedirectAnswers}

RedirectDeletes == {Plan(0, h, r) : h \in 0..MaxHops, r \in Statuses({204, 500})}

NextRedirect == Step(RedirectPlans, RedirectPlans, RedirectDeletes)

SpecRedirect == Init /\ [][NextRedirect]_vars


\* SpecEmpty, session headers without a value: an answer holds at most one of
\* the three session headers, with the empty text as its value, or names a
\* prepared statement.
EmptyHeaders ==
    {<<None, None, None>>,
     <<Some(<<>>), None, None>>,
     <<None, Some(<<>>), None>>,
     <<None, None, Some(<<>>)>>,
     <<None, None, Some(<<"p">>)>>}

EmptyAnswers ==
    {Response(200, "none", "q1", hasNext, 2, None, <<>>, h[1], h[2], h[3]) :
        hasNext \in BOOLEAN, h \in EmptyHeaders}

EmptyPlans == {Plan(0, 0, r) : r \in EmptyAnswers}

EmptyDeletes == {Plan(0, 0, r) : r \in Statuses({204})}

InitEmpty == Construct(1, <<<<PropB, ValuePlain>>>>, <<>>)

NextEmpty == Step(EmptyPlans, EmptyPlans, EmptyDeletes)

SpecEmpty == InitEmpty /\ [][NextEmpty]_vars


\* SpecPolling, a query that ends: the server stops sending nextUri before the
\* calls run out (an answer holds nextUri only if `left` calls remain after the
\* call it answers), so the polling thread is never held by a missing call; the
\* thread inside execute() keeps running and every GET it sends is answered.
PollingAnswers(left) ==
    {r \in Bodies({"q1"}, {0, 2}, {None}, {None}, {None}, {None}) :
        r.hasNext => nreq + left <= MaxCalls}

\* The POST is sent in the step that receives its answer, a GET of execute()
\* one step before.
PollingPosts == {Plan(0, 0, r) : r \in PollingAnswers(2)}

PollingGets == {Plan(0, 0, r) : r \in PollingAnswers(1) \cup Statuses({500})}

PollingDeletes == {Plan(0, 0, r) : r \in Statuses({204})}

NextPolling == Step(PollingPosts, PollingGets, PollingDeletes)

SpecPolling ==
    /\ Init
    /\ [][NextPolling]_vars
    /\ WF_vars(ExecuteLoop)
    /\ WF_vars(ExecuteFetch)
    /\ WF_vars(ExecuteReceive(PollingGets))

(* ------------------------------- claims -------------------------------- *)

\* C1: when the iteration of the query's Result has completed, the number of rows
\* it yielded and the Result's row number both equal the number of rows received
\* in the answers to the POST and to every GET poll (no row having been taken by
\* a fetch() the user called directly).
C1_RowCount ==
    (genPc = "done" /\ handed = 0) => (Len(yielded) = rowCtr /\ rownumber = rowCtr)

\* execute() polled twice after its POST and returned; the Result was iterated to its end.
C1_Witness ==
    /\ genPc = "done"
    /\ handed = 0
    /\ ~cancelled
    /\ nreq = 3
    /\ rowCtr >= 3
    /\ rownumber = rowCtr

\* C2: the rows yielded are, in order, the rows received (row i of the
\* concatenated data arrays is the i-th row yielded): at any moment a prefix of
\* them, and all of them when the iteration has completed.
C2_RowOrder ==
    handed = 0 =>
        /\ Len(yielded) <= rowCtr
        /\ \A i \in 1..Len(yielded) : yielded[i] = i
        /\ (genPc = "done" => yielded = RowsOf(0, rowCtr))

\* Rows buffered by execute() and rows fetched by the iteration itself (execute()
\* returned early, the query being cancelled) were yielded.
C2_Witness ==
    /\ genPc = "done"
    /\ handed = 0
    /\ cancelled
    /\ Len(yielded) >= 3
    /\ lastReq.verb = "GET"

\* C5 (as claimed): a USER_ERROR answer raises PrestoUserError with the answer's
\* query id, and after it no operation issues an HTTP request.
C5_UserErrorIsTerminal ==
    [][lastOp.outcome = "PrestoUserError" =>
          (lastOp.qid \in QueryIds /\ nreq' = nreq)]_vars

\* C7 (as claimed): once the query is cancelled, the iteration yields no row and
\* issues no GET.
C7_CancelledStopsIteration ==
    [][cancelled =>
          (yielded' = yielded /\ ~(nreq' > nreq /\ lastOp'.op = "next"))]_vars

\* C8: a call of execute() on a cancelled query raises PrestoUserError("Query has
\* been cancelled"), issues no HTTP request and leaves query_id, finished, stats
\* and columns as they were.
C8_ExecuteRefused ==
    [][(cancelled /\ execPc = "idle" /\ lastOp'.op = "execute" /\ lastOp' # lastOp) =>
          /\ lastOp'.outcome = "PrestoUserError(Query has been cancelled)"
          /\ nreq' = nreq
          /\ lastReq' = lastReq
          /\ query_id' = query_id
          /\ finished' = finished
          /\ stats' = stats
          /\ columns' = columns]_vars

\* execute() was called on a cancelled query.
C8_Witness ==
    /\ cancelled
    /\ lastOp = Op("execute", "PrestoUserError(Query has been cancelled)", query_id)

\* C4: no verb call makes more than max_attempts attempts; and with max_attempts
\* = N > 1, when the server answers 503 to the first N-1 attempts of a POST or
\* GET and 200 to the N-th, exactly N attempts are made and the call returns the
\* 200 answer.
C4_Attempts ==
    /\ lastCall.attempts <= max_attempts
    /\ (/\ max_attempts > 1
        /\ lastCall.verb \in {"POST", "GET"}
        /\ lastCall.fails = max_attempts - 1
        /\ lastCall.final = 200)
       => (lastCall.attempts = max_attempts /\ lastCall.status = 200)

\* A POST that was answered 503 on all but the last of its max_attempts attempts.
C4_Witness ==
    /\ max_attempts > 1
    /\ lastCall.verb = "POST"
    /\ lastCall.fails = max_attempts - 1
    /\ lastCall.attempts = max_attempts
    /\ lastCall.status = 200

\* C6 (as claimed): cancel() on a finished query, or one without query_id, issues
\* no request and changes nothing of the query; on a running query it issues
\* exactly one DELETE, to /v1/query/{query_id}.
C6_ExactlyOneDelete ==
    [][/\ ((query_id = "None" \/ finished) /\ lastOp'.op = "cancel" /\ lastOp' # lastOp)
            => UNCHANGED <<nreq, lastReq, queryVars, resultVars, requestVars>>
       /\ (lastReq'.verb = "DELETE" /\ nreq' # nreq)
            => /\ ~(query_id = "None" \/ finished)
               /\ nreq' = nreq + 1
               /\ lastReq'.path = "/v1/query"
               /\ lastReq'.qid = query_id
       /\ (cancelPc = "inflight" /\ cancelPc' = "idle")
            => (lastCall'.verb = "DELETE" /\ lastCall'.attempts = 1)]_vars

\* C6 (amended): on a running query cancel() calls delete() exactly once, for
\* /v1/query/{query_id}; the call makes one DELETE attempt when the server's
\* first answer is not 503, and at most max_attempts attempts otherwise.
C6_OneDeleteCall ==
    [][/\ ((query_id = "None" \/ finished) /\ lastOp'.op = "cancel" /\ lastOp' # lastOp)
            => UNCHANGED <<nreq, lastReq, queryVars, resultVars, requestVars>>
       /\ (lastReq'.verb = "DELETE" /\ nreq' # nreq)
            => /\ ~(query_id = "None" \/ finished)
               /\ nreq' = nreq + 1
               /\ lastReq'.path = "/v1/query"
               /\ lastReq'.qid = query_id
       /\ (cancelPc = "inflight" /\ cancelPc' = "idle")
            => /\ lastCall'.verb = "DELETE"
               /\ lastCall'.attempts <= max_attempts
               /\ ((lastCall'.fails = 0 /\ lastCall'.final # 503) => lastCall'.attempts = 1)]_vars

\* cancel() ran on a running query; its DELETE was answered 503 once, then 204.
C6_Witness ==
    /\ cancelled
    /\ ~finished
    /\ lastOp = Op("cancel", "return", "None")
    /\ lastReq.verb = "DELETE"
    /\ lastReq.qid = query_id
    /\ lastCall.verb = "DELETE"
    /\ lastCall.attempts = 2
    /\ lastCall.status = 204

\* C9: a poll whose answer holds a non-empty column list sets the query's columns
\* to it; a poll whose answer holds no list (absent or null) or the empty list
\* leaves the columns of the earlier poll in place.
C9_StickyColumns ==
    [][/\ (polled' \in {None, Some(<<>>)} => columns' = columns)
       /\ (polled' \notin {None, Some(<<>>)} => columns' = polled')]_vars

\* Columns arrived on one poll and the empty list on the next: the columns stay.
C9_Witness ==
    /\ polled = Some(<<>>)
    /\ columns = Some(<<"x", "y">>)
    /\ lastCall.verb = "GET"

\* The entries of an X-Presto-Session value, and what they say.
Entries(header) ==
    IF header = <<>> THEN {}
    ELSE {Split(header, ",")[i] : i \in 1..Len(Split(header, ","))}

HasEntry(header, k, v) == (k \o <<"=">> \o quote(v)) \in Entries(header)

HasName(header, k) == \E e \in Entries(header) : SplitFirst(e, "=")[1] = k

\* The (name, value) pairs of a Set-Session header, None or malformed: no pair.
SetPairs(set) ==
    IF set = None \/ MalformedSetSession(set[1]) THEN <<>>
    ELSE get_session_property_values(set[1])

ClearNames(clear) == IF clear = None THEN <<>> ELSE get_header_values(clear[1])

\* C3 (as claimed): the request that follows an answer with Set-Session k=v holds
\* k=percent_encode(v) in X-Presto-Session, and the request that follows an
\* answer with Clear-Session k holds no entry for k.
C3_SessionReflected ==
    [][nreq' > nreq =>
          /\ \A i \in 1..Len(SetPairs(lastResp.set)) :
                HasEntry(lastReq'.headers[HEADER_SESSION],
                         SetPairs(lastResp.set)[i][1], SetPairs(lastResp.set)[i][2])
          /\ \A i \in 1..Len(ClearNames(lastResp.clear)) :
                ~HasName(lastReq'.headers[HEADER_SESSION],
                         ClearNames(lastResp.clear)[i])]_vars

\* C3 (amended): when process() returned a status for the answer and the next
\* request is a POST or a GET, that request's X-Presto-Session holds
\* k=percent_encode(v) for the last Set-Session entry k=v of each name k, and no
\* entry for a name of Clear-Session that Set-Session does not set.
C3_SessionReflectedWhenAccepted ==
    [][(nreq' > nreq /\ lastResp.accepted /\ lastReq'.verb \in {"POST", "GET"}) =>
          LET pairs == SetPairs(lastResp.set)
              names == ClearNames(lastResp.clear)
              session == lastReq'.headers[HEADER_SESSION]
          IN /\ \A i \in 1..Len(pairs) :
                   (\A j \in (i+1)..Len(pairs) : pairs[j][1] # pairs[i][1])
                       => HasEntry(session, pairs[i][1], pairs[i][2])
             /\ \A i \in 1..Len(names) :
                   (\A j \in 1..Len(pairs) : pairs[j][1] # names[i])
                       => ~HasName(session, names[i])]_vars

\* A GET sent after an answer that cleared b and set a: it holds a=x and no b.
C3_Witness ==
    /\ lastReq.verb = "GET"
    /\ nreq = 3
    /\ HasEntry(lastReq.headers[HEADER_SESSION], PropA, ValueSpecial)
    /\ ~HasName(lastReq.headers[HEADER_SESSION], PropB)
    /\ HasName(session_headers[HEADER_SESSION], PropB)

\* C10 (as claimed): with a custom header named like a reserved header, no
\* request is ever sent: serializing the session has failed with ValueError.
C10_ReservedHeadersRejected ==
    \A h \in ReservedHeaders :
        h \in DOMAIN extra_headers => lastReq.verb = "NONE"

\* The statements an X-Presto-Prepared-Statement header holds.
Statements(headers) ==
    IF HEADER_PREPARED_STATEMENT \in DOMAIN headers
    THEN Entries(headers[HEADER_PREPARED_STATEMENT]) ELSE {}

\* C11 (as claimed): the value of an accepted X-Presto-Added-Prepare header is
\* recorded, no step removes a recorded statement, and every request sent carries
\* every statement recorded so far in X-Presto-Prepared-Statement.
C11_PreparedKept ==
    [][/\ (lastResp'.accepted /\ lastResp'.prep # None)
            => lastResp'.prep[1] \in Statements(session_headers')
       /\ Statements(session_headers) \subseteq Statements(session_headers')
       /\ nreq' > nreq
            => Statements(session_headers) \subseteq Statements(lastReq'.headers)]_vars

\* C12 (as claimed): with a credential provider, no request (POST, GET or
\* DELETE) is dispatched while the provider reports the token as not valid.
C12_TokenValidAtDispatch ==
    [][(credentials /\ nreq' > nreq) => token_valid']_vars

\* Each value with the Set-Session header that sets property a to it.
RoundTripWires == {<<v, Wire(PropA, v)>> : v \in RoundTripValues}

\* C13: for every value v that holds "," or "=", an accepted answer whose
\* Set-Session is k=percent_encode(v) leaves exactly v stored under k
\* (decode(encode(v)) = v), and the next POST or GET carries k=percent_encode(v)
\* in X-Presto-Session again.
C13_RoundTrip ==
    [][(lastResp.accepted /\ lastResp.set # None) =>
          \A p \in RoundTripWires :
             lastResp.set[1] = p[2] =>
                /\ unquote(quote(p[1])) = p[1]
                /\ PropA \in PropKeys(properties)
                /\ PropValue(properties, PropA) = p[1]
                /\ (nreq' > nreq /\ lastReq'.verb \in {"POST", "GET"})
                      => p[2] \in Entries(lastReq'.headers[HEADER_SESSION])]_vars

\* The value "=," arrived as a=%3D%2C and the GET that followed carried it again.
C13_Witness ==
    /\ lastResp.accepted
    /\ lastResp.set = Some(<<"a", "=", "%", "3", "D", "%", "2", "C">>)
    /\ PropValue(properties, PropA) = <<"=", ",">>
    /\ lastReq.verb = "GET"
    /\ <<"a", "=", "%", "3", "D", "%", "2", "C">> \in Entries(lastReq.headers[HEADER_SESSION])

\* C14: cancel() on a running query has set cancelled when its DELETE is sent;
\* the answer 204 makes it return, 503 makes it raise Http503Error and any other
\* status HttpError; cancelled is true after either outcome and stays true.
C14_CancelOutcome ==
    [][/\ (nreq' > nreq /\ lastReq'.verb = "DELETE") => cancelled'
       /\ cancelPc' = "inflight" => cancelled'
       /\ (cancelPc = "inflight" /\ cancelPc' = "idle")
            => /\ cancelled'
               /\ lastOp'.op = "cancel"
               /\ lastCall'.verb = "DELETE"
               /\ lastOp'.outcome = (CASE lastCall'.status = 204 -> "return"
                                       [] lastCall'.status = 503 -> "Http503Error"
                                       [] OTHER -> "HttpError")
       /\ cancelled => cancelled']_vars

\* The DELETE of cancel() was answered 500: HttpError, and the query is cancelled.
C14_Witness ==
    /\ cancelled
    /\ cancelPc = "idle"
    /\ lastOp = Op("cancel", "HttpError", "None")
    /\ lastCall.verb = "DELETE"
    /\ lastCall.status = 500

\* A rawType that names a type `base` WITH TIME ZONE, with or without a parameter:
\* base, then nothing or "(...)", then " with time zone".
NamesZoned(base, raw) ==
    LET zone == <<" ", "w", "i", "t", "h", " ", "t", "i", "m", "e", " ", "z", "o", "n", "e">>
        n == Len(raw) - Len(zone)
    IN /\ n >= Len(base)
       /\ SubSeq(raw, 1, Len(base)) = base
       /\ SubSeq(raw, n + 1, Len(raw)) = zone
       /\ (n = Len(base) \/ (raw[Len(base) + 1] = "(" /\ raw[n] = ")"))

\* C15 (as claimed): for every row yielded with experimental_python_types, a
\* null cell becomes None; a scalar cell of a column whose rawType names
\* timestamp with time zone (also with a parameter) is converted by the
\* zone-aware timestamp rule, and one whose rawType names time with time zone by
\* the zone-aware time rule, never by the bare timestamp or time rule.
C15_ZoneAwareFirst ==
    [][(/\ experimental_python_types
        /\ Len(yielded') = Len(yielded) + 1
        /\ columns' # None) =>
          LET raw == columns'[1][1]
          IN /\ cell = "null" => lastYield' = "None"
             /\ (cell = "scalar" /\ NamesZoned(TypeTimestamp, raw))
                   => lastYield' = "datetime with time zone"
             /\ (cell = "scalar" /\ NamesZoned(TypeTime, raw))
                   => lastYield' = "time with time zone"]_vars

\* C16: the session headers of one answer are applied in the order
\* Clear-Session, Set-Session, Added-Prepare.  When an accepted answer both
\* clears and sets a name, the name is present afterwards, with the value set
\* last; when Set-Session cannot be read (ValueError), Clear-Session has been
\* applied already and Added-Prepare has not.
C16_ClearThenSet ==
    [][/\ lastResp'.accepted =>
            LET pairs == SetPairs(lastResp'.set)
                names == ClearNames(lastResp'.clear)
            IN \A i \in 1..Len(pairs) :
                  (/\ \E j \in 1..Len(names) : names[j] = pairs[i][1]
                   /\ \A j \in (i+1)..Len(pairs) : pairs[j][1] # pairs[i][1])
                  => /\ pairs[i][1] \in PropKeys(properties')
                     /\ PropValue(properties', pairs[i][1]) = pairs[i][2]
       /\ (lastOp'.outcome = "ValueError" /\ lastOp' # lastOp)
            => /\ \A j \in 1..Len(ClearNames(lastResp'.clear)) :
                     ClearNames(lastResp'.clear)[j] \notin PropKeys(properties')
               /\ session_headers' = session_headers]_vars

\* An answer cleared a and set a=x while a held another value: a is x.
C16_Witness ==
    /\ lastResp.accepted
    /\ lastResp.clear = Some(PropA)
    /\ lastResp.set = Some(Wire(PropA, ValuePlain))
    /\ properties = <<<<PropB, ValueSpecial>>, <<PropA, ValuePlain>>>>
    /\ nreq = 2

\* C17 (as claimed): in every reachable state, finished implies that the
\* request's next_uri is absent.
C17_FinishedNoNextUri == finished => next_uri = None

\* C18 (as claimed): once query_id holds a value, no step changes it.
C18_QueryIdSetOnce == [][query_id # "None" => query_id' = query_id]_vars

\* A step in which a verb call returns its response to execute(), fetch() or cancel().
CallReturns ==
    \/ nreq' > nreq /\ lastReq'.verb = "POST"
    \/ nreq' > nreq /\ lastReq'.verb = "GET" /\ execPc' # "inflight"
    \/ execPc = "inflight" /\ execPc' # "inflight"
    \/ cancelPc = "inflight" /\ cancelPc' = "idle"

C20_RedirectLoop ==
    [][/\ (nreq' > nreq /\ lastReq'.verb = "POST")
            => /\ nreq' - nreq = lastCall'.hops + 1
               /\ lastCall'.status \notin {301, 302, 303, 307, 308}
               /\ lastCall'.status = lastCall'.final
               /\ (lastReq'.path = "redirected") = (lastCall'.hops > 0)
       /\ (nreq' > nreq /\ lastReq'.verb \in {"GET", "DELETE"})
            => /\ nreq' = nreq + 1
               /\ lastReq'.path # "redirected"
       /\ CallReturns => lastCall'.status \notin {301, 302, 303, 307, 308}]_vars

\* A POST was redirected once and then answered 200; a GET followed.
C20_Witness ==
    /\ lastCall.verb = "POST"
    /\ lastCall.hops = 1
    /\ lastCall.status = 200
    /\ nreq = 3
    /\ lastReq.verb = "GET"
    /\ lastReq.path = "next"

\* A step in which process() is applied to a response.
Processes ==
    \/ nreq' > nreq /\ lastReq'.verb = "POST"
    \/ nreq' > nreq /\ lastReq'.verb = "GET" /\ execPc' # "inflight"
    \/ execPc = "inflight" /\ execPc' # "inflight"

\* A header that is absent or has the empty value.
Valueless(header) == header = None \/ header = Some(<<>>)

\* C21 (as claimed): when process() is applied to a successful response (2xx,
\* no error field), a session header that is absent or empty is a no-op.  With
\* a valueless Set-Session, process() returns a status and the properties are
\* what Clear-Session alone makes of them; with Clear-Session valueless too
\* they are unchanged; with a valueless Added-Prepare the prepared-statement
\* header of the HTTP session is unchanged.
C21_ValuelessHeaderNoOp ==
    [][(Processes /\ lastCall'.status < 400 /\ lastCall'.error = "none")
         => /\ Valueless(lastResp'.set)
                 => /\ lastCall'.processed = "ok"
                    /\ Valueless(lastResp'.clear) => properties' = properties
            /\ Valueless(lastResp'.prep)
                 => SessionPrepared(session_headers') = SessionPrepared(session_headers)]_vars

\* C22: cancel() on another thread while execute() polls.  Setting cancelled
\* leaves the polling thread where it is and its buffer as it is; a GET in
\* flight at that moment still gets its answer processed, and its rows are
\* appended when the answer is accepted; cancelled is never taken back, and
\* once it is set the next test of execute()'s loop ends execute(), so no poll
\* is started by a test made after the mark and at most the one poll begun
\* before it completes.
C22_CancelDuringPolling ==
    [][/\ (cancelled' /\ ~cancelled)
            => (execPc' = execPc /\ rows' = rows /\ next_uri' = next_uri /\ nreq' = nreq + 1
                /\ lastReq'.verb = "DELETE")
       /\ (cancelled /\ execPc = "inflight" /\ execPc' # "inflight")
            => /\ lastCall'.verb = "GET"
               /\ lastCall'.processed # "none"
               /\ lastCall'.processed = "ok"
                    => /\ execPc' = "loop"
                       /\ rows' = Some(rows[1] \o RowsOf(rowCtr, rowCtr' - rowCtr))
       /\ cancelled => cancelled'
       /\ (cancelled /\ execPc = "loop" /\ execPc' # "loop")
            => (execPc' = "idle" /\ nreq' = nreq
                /\ lastOp' = Op("execute", "return", query_id))]_vars

\* A GET of execute() was in flight when cancel() sent its DELETE, the DELETE was
\* answered, then the GET: its rows are in the buffer and execute() has returned
\* with the query cancelled and not finished.
C22_Witness ==
    /\ cancelled
    /\ ~finished
    /\ lastReq.verb = "DELETE"
    /\ cancelPc = "idle"
    /\ lastCall.verb = "GET"
    /\ lastCall.processed = "ok"
    /\ execPc = "idle"
    /\ lastOp = Op("execute", "return", "q1")
    /\ rows = Some(RowsOf(0, rowCtr))
    /\ rowCtr > 1

\* C23: execute() polls until the query is terminal.  A call of execute() that
\* is under way ends, unless a cancel() intervenes; when execute() returns its
\* Result the query is finished or cancelled, finished when it was not
\* cancelled, and the buffer holds every row received since the POST.
C23_PollsUntilTerminal ==
    /\ [][(execPc = "loop" /\ execPc' = "idle")
            => /\ lastOp' = Op("execute", "return", query_id)
               /\ finished \/ cancelled
               /\ rows' = Some(RowsOf(0, rowCtr'))]_vars
    /\ (execPc # "idle") ~> ((execPc = "idle" /\ lastOp.op = "execute") \/ cancelled)

\* execute() has returned after its POST and two polls, the second without
\* nextUri: the query is finished and the rows of all three answers are buffered.
C23_Witness ==
    /\ execPc = "idle"
    /\ lastOp = Op("execute", "return", "q1")
    /\ finished
    /\ ~cancelled
    /\ nreq = 3
    /\ lastCall.verb = "GET"
    /\ next_uri = None
    /\ rowCtr = 6
    /\ rows = Some(RowsOf(0, 6))

\* C24: when process() raises for the status of the response (not ok) or for an
\* error field in its body, the session properties, the prepared-statement
\* header of the HTTP session and next_uri are what they were before the call,
\* whatever session headers and nextUri the response holds.
C24_FailureLeavesRequest ==
    [][(Processes /\ (~Ok(lastCall'.status) \/ lastCall'.error # "none"))
         => /\ lastCall'.processed \notin {"ok", "none", "ValueError"}
            /\ properties' = properties
            /\ SessionPrepared(session_headers') = SessionPrepared(session_headers)
            /\ next_uri' = next_uri]_vars

\* The first POST was answered with status 500, a nextUri and all three session
\* headers: b keeps its value, a is not set, no statement and no next_uri are held.
C24_Witness ==
    /\ nreq = 1
    /\ lastCall.verb = "POST"
    /\ lastCall.processed = "HttpError"
    /\ lastCall.hasNext
    /\ lastResp.clear = Some(PropA)
    /\ lastResp.set = Some(Wire(PropB, ValuePlain))
    /\ lastResp.prep = Some(<<"q">>)
    /\ properties = <<<<PropB, ValueSpecial>>>>
    /\ SessionPrepared(session_headers) = None
    /\ next_uri = None

\* C25 (as claimed): when execute() returns its Result and the answer to its
\* POST held a non-empty column list that no later answer has replaced, the
\* query's columns are that list.
C25_PostColumnsKept ==
    [][(execPc = "loop" /\ execPc' = "idle" /\ lastOp' = Op("execute", "return", query_id)
        /\ posted # None /\ posted[1] # <<>>)
         => columns' = posted]_vars

====
